---- MODULE Spec2Model ----
(***************************************************************************)
(* Model of the two WeCom (enterprise WeChat) notification scripts of      *)
(* shiquda/lai: scripts/wechat_bot.py and scripts/test_wechat.py.          *)
(*                                                                         *)
(* One behaviour of the model is one run of one of the two scripts: the    *)
(* arguments are validated, at most one requests.post call is made, the    *)
(* reply is interpreted, the outcome is printed and the process exits.     *)
(*                                                                         *)
(* Text is a sequence of chunks (strings), so that f-strings are           *)
(* concatenations and "contains" is a sub-sequence test.  The Chinese and  *)
(* emoji literals of the source are written in ASCII; each definition      *)
(* names the literal it stands for.  A backtick is written <bt>.           *)
(***************************************************************************)
EXTENDS Integers, Sequences, FiniteSets

VARIABLES
    script,    \* which script runs: "wechat_bot" or "test_wechat"
    argv,      \* sys.argv; argv[1] is the script name (Python's sys.argv[0])
    jsonlib,   \* the installed requests/json combination (decides what response.json() raises)
    pc,        \* "start", "posting" (requests.post called, reply not yet handled), "done"
    posted,    \* the requests handed to requests.post, in order
    time_str,  \* the value datetime.now().strftime(...) gave, "" before it is read
    response,  \* what requests.post produced: a raised exception or a Response
    outcome,   \* what send_message / test_wechat_webhook gave its caller
    stdout,    \* the lines printed, in order
    exitCode   \* the process exit code, -1 while running

vars == <<script, argv, jsonlib, pc, posted, time_str, response, outcome, stdout, exitCode>>

----------------------------------------------------------------------------
(* Bounds and input sets *)

\* sys.argv holds the script name and at most MaxArgs arguments.
MaxArgs == 5

\* timeout=10 of both requests.post calls.
Timeout == 10

WebhookUrl == "https://qyapi.weixin.qq.com/cgi-bin/webhook/send?key=K"

\* The argument strings a run may be given.
ArgTokens == {"", WebhookUrl, "summary", "error", "message", "## <bt>x<bt>"}

Scripts == {"wechat_bot", "test_wechat"}

\* Values datetime.now().strftime("%Y-%m-%d %H:%M:%S") may give.
Times == {"2025-09-10 08:00:00", "2025-09-10 23:59:59"}

\* requests >= 2.27 raises requests.exceptions.JSONDecodeError from
\* response.json(); older versions raise the decoder's own error, which is
\* json.JSONDecodeError, or simplejson's when simplejson is installed.
JsonLibs == {"requests>=2.27", "requests<2.27", "requests<2.27+simplejson"}

Statuses == {200, 404, 500}

----------------------------------------------------------------------------
(* Text helpers *)

RECURSIVE Digits(_)
\* str(n) for n >= 0, one chunk per digit.
Digits(n) ==
    LET d == <<"0", "1", "2", "3", "4", "5", "6", "7", "8", "9">>
    IN IF n < 10 THEN <<d[n + 1]>> ELSE Digits(n \div 10) \o <<d[(n % 10) + 1]>>

\* sub occurs in text as a run of consecutive chunks.
Contains(text, sub) ==
    \E i \in 0..(Len(text) - Len(sub)) :
        \A j \in 1..Len(sub) : text[i + j] = sub[j]

StartsWith(text, pre) ==
    /\ Len(pre) <= Len(text)
    /\ \A j \in 1..Len(pre) : text[j] = pre[j]

RECURSIVE Flatten(_)
\* The lines of an output as one text.
Flatten(lines) ==
    IF lines = <<>> THEN <<>> ELSE Head(lines) \o <<"\n">> \o Flatten(Tail(lines))

----------------------------------------------------------------------------
(* The remote side: response bodies and JSON decoding *)

ErrcodeTokens == {"0", "93000", "0.0", "false", "\"0\"", "null"}
ErrmsgTokens == {"\"ok\"", "\"invalid webhook url\"", "null"}

ObjectBodies ==
    {<<"{", "}">>}
    \cup {<<"{", "\"errcode\"", ":", c, "}">> : c \in ErrcodeTokens}
    \cup {<<"{", "\"errmsg\"", ":", m, "}">> : m \in ErrmsgTokens}
    \cup {<<"{", "\"errcode\"", ":", c, ",", "\"errmsg\"", ":", m, "}">> :
            c \in ErrcodeTokens, m \in ErrmsgTokens}

\* Valid JSON that is not an object.
NonObjectBodies ==
    {<<"[", "]">>, <<"[", "0", "]">>, <<"42">>, <<"\"ok\"">>, <<"null">>, <<"true">>}

\* Not JSON at all: an empty body, an HTML error page, a truncated object.
NotJsonBodies == {<<>>, <<"<html>">>, <<"{", "\"errcode\"", ":">>}

Bodies == ObjectBodies \cup NonObjectBodies \cup NotJsonBodies

\* JSON string tokens and the Python str each decodes to.
Unquote(tok) ==
    CASE tok = "\"0\"" -> "0"
      [] tok = "\"ok\"" -> "ok"
      [] tok = "\"invalid webhook url\"" -> "invalid webhook url"
      [] tok = "\"errcode\"" -> "errcode"
      [] tok = "\"errmsg\"" -> "errmsg"
      [] OTHER -> "?"

StringTokens == {"\"0\"", "\"ok\"", "\"invalid webhook url\"", "\"errcode\"", "\"errmsg\""}
IntTokens == {"0", "42", "93000"}
FloatTokens == {"0.0"}

IsScalar(tok) ==
    tok \in StringTokens \cup IntTokens \cup FloatTokens \cup {"null", "true", "false"}

\* A decoded scalar as a Python value: its type and its str().
DecodeScalar(tok) ==
    CASE tok = "null" -> [t |-> "NoneType", v |-> "None"]
      [] tok = "true" -> [t |-> "bool", v |-> "True"]
      [] tok = "false" -> [t |-> "bool", v |-> "False"]
      [] tok \in IntTokens -> [t |-> "int", v |-> tok]
      [] tok \in FloatTokens -> [t |-> "float", v |-> tok]
      [] OTHER -> [t |-> "str", v |-> Unquote(tok)]

PyNone == [t |-> "NoneType", v |-> "None"]

NoItems == [k \in {} |-> PyNone]

JsonInvalid == [ok |-> FALSE, t |-> "", v |-> "", items |-> NoItems]

RECURSIVE ParseMembers(_, _, _)
\* The members of an object from toks[i] on: "key" : scalar, separated by
\* commas and closed by "}".  A repeated key keeps its last value.
ParseMembers(toks, i, acc) ==
    IF i + 3 > Len(toks) THEN JsonInvalid
    ELSE IF toks[i] \notin StringTokens \/ toks[i + 1] # ":" \/ ~IsScalar(toks[i + 2])
    THEN JsonInvalid
    ELSE LET key == Unquote(toks[i])
             acc2 == [k \in (DOMAIN acc) \cup {key} |->
                        IF k = key THEN DecodeScalar(toks[i + 2]) ELSE acc[k]]
         IN IF toks[i + 3] = "}"
            THEN IF i + 3 = Len(toks)
                 THEN [ok |-> TRUE, t |-> "dict", v |-> "", items |-> acc2]
                 ELSE JsonInvalid
            ELSE IF toks[i + 3] = ","
                 THEN ParseMembers(toks, i + 4, acc2)
                 ELSE JsonInvalid

\* json.loads of a body: the Python value, or ok = FALSE when the decoder raises.
\* A dict's items are keyed by name, a list's by index ("0").
JsonLoads(toks) ==
    IF Len(toks) = 0 THEN JsonInvalid
    ELSE IF Len(toks) = 1
    THEN IF IsScalar(toks[1])
         THEN [ok |-> TRUE, t |-> DecodeScalar(toks[1]).t, v |-> DecodeScalar(toks[1]).v,
               items |-> NoItems]
         ELSE JsonInvalid
    ELSE IF toks[1] = "["
    THEN IF \/ Len(toks) = 2 /\ toks[2] = "]"
            \/ Len(toks) = 3 /\ IsScalar(toks[2]) /\ toks[3] = "]"
         THEN [ok |-> TRUE, t |-> "list", v |-> "",
               items |-> [k \in (IF Len(toks) = 3 THEN {"0"} ELSE {}) |->
                            DecodeScalar(toks[2])]]
         ELSE JsonInvalid
    ELSE IF toks[1] = "{"
    THEN IF Len(toks) = 2 /\ toks[2] = "}"
         THEN [ok |-> TRUE, t |-> "dict", v |-> "", items |-> NoItems]
         ELSE ParseMembers(toks, 2, NoItems)
    ELSE JsonInvalid

\* dict.get(key, default).
DictGet(d, key, default) ==
    IF key \in DOMAIN d.items THEN d.items[key] ELSE default

\* Python's x == 0: an int, a float or a bool of value zero (False == 0).
PyEqZero(x) ==
    \/ x.t = "int" /\ x.v = "0"
    \/ x.t = "float" /\ x.v = "0.0"
    \/ x.t = "bool" /\ x.v = "False"

----------------------------------------------------------------------------
(* Exceptions *)

\* The class response.json() raises on a body that is not JSON.
JsonErrorClass(lib) ==
    CASE lib = "requests>=2.27" -> "requests.exceptions.JSONDecodeError"
      [] lib = "requests<2.27" -> "json.JSONDecodeError"
      [] OTHER -> "simplejson.JSONDecodeError"

\* IsRequestException narrowed to connection errors: a timeout is not caught.
IsRequestException_ConnectionOnly(exc) ==
    exc \in {"requests.exceptions.ConnectionError", "requests.exceptions.MissingSchema"}

\* isinstance(exc, requests.exceptions.RequestException).
IsRequestException(exc) ==
    exc \in {"requests.exceptions.ConnectionError", "requests.exceptions.Timeout",
             "requests.exceptions.MissingSchema", "requests.exceptions.JSONDecodeError"}

\* isinstance(exc, json.JSONDecodeError).
IsJsonDecodeError(exc) ==
    exc \in {"json.JSONDecodeError", "requests.exceptions.JSONDecodeError"}

JsonErrorText == <<"Expecting value: line 1 column 1 (char 0)">>

----------------------------------------------------------------------------
(* requests.post *)

NoResponse == [kind |-> "none", exc |-> "", errtext |-> <<>>, status |-> 0, body |-> <<>>]

\* requests.post raised: DNS failure or connection refused, or the timeout.
TransportFailures ==
    {[kind |-> "exception", exc |-> "requests.exceptions.ConnectionError",
      errtext |-> <<"Failed to establish a new connection">>, status |-> 0, body |-> <<>>],
     [kind |-> "exception", exc |-> "requests.exceptions.ConnectionError",
      errtext |-> <<"Name or service not known">>, status |-> 0, body |-> <<>>],
     [kind |-> "exception", exc |-> "requests.exceptions.Timeout",
      errtext |-> <<"Read timed out. (read timeout=">> \o Digits(Timeout) \o <<")">>,
      status |-> 0, body |-> <<>>]}

Responses ==
    {[kind |-> "response", exc |-> "", errtext |-> <<>>, status |-> s, body |-> b] :
        s \in Statuses, b \in Bodies}

\* What requests.post(url, ...) can produce.  A URL without a scheme (the
\* empty string, or any argument that is not a URL) is refused by requests
\* with MissingSchema before anything is sent.
PossibleReplies(url) ==
    IF url = WebhookUrl
    THEN TransportFailures \cup Responses
    ELSE {[kind |-> "exception", exc |-> "requests.exceptions.MissingSchema",
           errtext |-> <<"Invalid URL '", url, "': No scheme supplied">>,
           status |-> 0, body |-> <<>>]}

\* The call requests.post(url, json=payload, headers=..., timeout=10).
PostRequest(url, payload) ==
    [url |-> url, json |-> payload,
     headers |-> [ContentType |-> "application/json"], timeout |-> Timeout]

\* requests.post is called: one more request is issued.
requests_post(issued, request) == Append(issued, request)

----------------------------------------------------------------------------
(* scripts/wechat_bot.py: class WeChatBot *)

DefaultTitle == "Lai notification"                 \* "Lai 通知"
MsgSentOk == <<"message sent successfully">>       \* "消息发送成功"
ApiErrorPrefix == "WeCom API error: "              \* "企业微信API错误: "
UnknownError == "unknown error"                    \* '未知错误'
HttpErrorPrefix == "HTTP error: "                  \* "HTTP错误: "
NetworkFailPrefix == "network request failed: "    \* "网络请求失败: "
JsonFailPrefix == "JSON parse failed: "            \* "JSON解析失败: "
SummaryTitle == "[!] log summary notification"     \* "🚨 日志摘要通知"
ErrorTitle == "[!] critical error alert"           \* "🚨 严重错误警报"

NoOutcome == [state |-> "none", delivered |-> FALSE, detail |-> <<>>, exc |-> ""]

Returned(delivered, detail) ==
    [state |-> "returned", delivered |-> delivered, detail |-> detail, exc |-> ""]

\* An exception in flight; detail holds str(e).
Raised(exc, text) ==
    [state |-> "raised", delivered |-> FALSE, detail |-> text, exc |-> exc]

\* payload of send_message.
send_message_payload(message, title) ==
    [msgtype |-> "markdown",
     markdown |-> [content |-> <<"## ", title, "\n\n">> \o message]]

\* "no attribute 'get'" of a decoded value that is not a dict.
NoGetAttribute(r) == Raised("AttributeError", <<"'", r.t, "' object has no attribute 'get'">>)

\* response.json(): the decoded value, or the library's decode error.
response_json(reply, lib) ==
    LET r == JsonLoads(reply.body)
    IN IF r.ok THEN r ELSE [r EXCEPT !.t = JsonErrorClass(lib)]

\* ApiErrorDetail reading the wrong field: errcode in place of errmsg.
ApiErrorDetail_WrongField(result) ==
    <<ApiErrorPrefix, DictGet(result, "errcode", [t |-> "str", v |-> UnknownError]).v>>

\* f"企业微信API错误: {result.get('errmsg', '未知错误')}"
ApiErrorDetail(result) ==
    <<ApiErrorPrefix, DictGet(result, "errmsg", [t |-> "str", v |-> UnknownError]).v>>

\* f"HTTP错误: {response.status_code}"
HttpErrorDetail(reply) == <<HttpErrorPrefix>> \o Digits(reply.status)

\* The body of the try block of send_message once requests.post gave reply.
send_message_try(reply, lib) ==
    IF reply.kind = "exception" THEN Raised(reply.exc, reply.errtext)
    ELSE IF reply.status = 200
    THEN LET result == response_json(reply, lib)
         IN IF ~result.ok THEN Raised(result.t, JsonErrorText)
            ELSE IF result.t # "dict" THEN NoGetAttribute(result)
            ELSE IF PyEqZero(DictGet(result, "errcode", PyNone))
            THEN Returned(TRUE, MsgSentOk)
            ELSE Returned(FALSE, ApiErrorDetail(result))
    ELSE Returned(FALSE, HttpErrorDetail(reply))

\* The except clauses of send_message, in their order.
send_message_except(r) ==
    IF r.state # "raised" THEN r
    ELSE IF IsRequestException(r.exc)
    THEN Returned(FALSE, <<NetworkFailPrefix>> \o r.detail)
    ELSE IF IsJsonDecodeError(r.exc)
    THEN Returned(FALSE, <<JsonFailPrefix>> \o r.detail)
    ELSE r

\* WeChatBot.send_message: the request it posts and what it gives its caller.
send_message(url, message, title, reply, lib) ==
    [request |-> PostRequest(url, send_message_payload(message, title)),
     result |-> send_message_except(send_message_try(reply, lib))]

\* message of send_log_summary.
SummaryMessage(file_path, now, summary) ==
    <<"\n", "**[!] log summary notification**", "\n\n",
      "**file:** <bt>", file_path, "<bt>\n",
      "**time:** <bt>", now, "<bt>\n\n",
      "**summary:**\n", "<bt><bt><bt>\n", summary, "\n<bt><bt><bt>\n">>

\* message of send_error.
ErrorMessage(file_path, now, error_msg) ==
    <<"\n", "**[!] critical error alert**", "\n\n",
      "**file:** <bt>", file_path, "<bt>\n",
      "**time:** <bt>", now, "<bt>\n\n",
      "**error details:**\n", "<bt><bt><bt>\n", error_msg, "\n<bt><bt><bt>\n">>

\* send_log_summary that leaves the title to send_message's default.
send_log_summary_DefaultTitle(url, file_path, summary, now, reply, lib) ==
    send_message(url, SummaryMessage(file_path, now, summary), DefaultTitle, reply, lib)

\* WeChatBot.send_log_summary.
send_log_summary(url, file_path, summary, now, reply, lib) ==
    send_message(url, SummaryMessage(file_path, now, summary), SummaryTitle, reply, lib)

\* WeChatBot.send_error.
send_error(url, file_path, error_msg, now, reply, lib) ==
    send_message(url, ErrorMessage(file_path, now, error_msg), ErrorTitle, reply, lib)

----------------------------------------------------------------------------
(* scripts/wechat_bot.py: main *)

\* sys.argv[i], with Python's index.
Arg(i) == argv[i + 1]

MessageTypes == {"summary", "error", "message"}

\* The usage text of wechat_bot.py.
BotUsageLines ==
    <<<<"usage:">>,
      <<"  python wechat_bot.py <webhook_url> <message type> [args...]">>,
      <<"">>,
      <<"message types:">>,
      <<"  summary <file path> <summary>">>,
      <<"  error <file path> <error message>">>,
      <<"  message <title> <message>">>>>

\* The complaint about the argument count of a message type.
BotArgCountLine(msg_type) ==
    CASE msg_type = "summary" -> <<"error: summary needs a file path and a summary">>
      [] msg_type = "error" -> <<"error: error needs a file path and an error message">>
      [] OTHER -> <<"error: message needs a title and a message">>

BotUnknownTypeLine(msg_type) == <<"error: unknown message type '", msg_type, "'">>

\* len(sys.argv) < 3
BotTooFewArgs(n) == n < 3

\* BotWrongArgCount that only rejects too few arguments.
BotWrongArgCount_TooFewOnly(n) == n < 5

\* len(sys.argv) != 5
BotWrongArgCount(n) == n # 5

\* The bot method main calls for sys.argv = av, with what it posts and returns.
BotInvoke(av, now, reply, lib) ==
    CASE av[3] = "summary" -> send_log_summary(av[2], av[4], av[5], now, reply, lib)
      [] av[3] = "error" -> send_error(av[2], av[4], av[5], now, reply, lib)
      [] OTHER -> send_message(av[2], <<av[5]>>, av[4], reply, lib)

\* print(f"✅ {result}") / print(f"❌ {result}")
BotResultLine(r) == <<IF r.delivered THEN "[ok] " ELSE "[x] ">> \o r.detail

\* ExitCodeOf with the two codes exchanged.
ExitCodeOf_Swapped(success) == IF success THEN 1 ELSE 0

\* sys.exit(0) on success, sys.exit(1) otherwise.
ExitCodeOf(success) == IF success THEN 0 ELSE 1

\* main: fewer than two arguments.
BotUsage ==
    /\ script = "wechat_bot" /\ pc = "start"
    /\ BotTooFewArgs(Len(argv))
    /\ stdout' = stdout \o BotUsageLines
    /\ exitCode' = 1
    /\ pc' = "done"
    /\ UNCHANGED <<script, argv, jsonlib, posted, time_str, response, outcome>>

\* main: summary, error or message with an argument count other than 5.
BotArgCount ==
    /\ script = "wechat_bot" /\ pc = "start"
    /\ ~BotTooFewArgs(Len(argv))
    /\ Arg(2) \in MessageTypes
    /\ BotWrongArgCount(Len(argv))
    /\ stdout' = Append(stdout, BotArgCountLine(Arg(2)))
    /\ exitCode' = 1
    /\ pc' = "done"
    /\ UNCHANGED <<script, argv, jsonlib, posted, time_str, response, outcome>>

\* main: any other message type.
BotUnknownType ==
    /\ script = "wechat_bot" /\ pc = "start"
    /\ ~BotTooFewArgs(Len(argv))
    /\ Arg(2) \notin MessageTypes
    /\ stdout' = Append(stdout, BotUnknownTypeLine(Arg(2)))
    /\ exitCode' = 1
    /\ pc' = "done"
    /\ UNCHANGED <<script, argv, jsonlib, posted, time_str, response, outcome>>

\* main calls send_log_summary or send_error: the time is read, the message
\* is built and requests.post is called; the reply is the remote side's.
BotSendWrapped ==
    /\ script = "wechat_bot" /\ pc = "start"
    /\ ~BotTooFewArgs(Len(argv))
    /\ Arg(2) \in {"summary", "error"}
    /\ ~BotWrongArgCount(Len(argv))
    /\ \E now \in Times, reply \in PossibleReplies(Arg(1)) :
          /\ time_str' = now
          /\ posted' = requests_post(posted, BotInvoke(argv, now, reply, jsonlib).request)
          /\ response' = reply
    /\ pc' = "posting"
    /\ UNCHANGED <<script, argv, jsonlib, outcome, stdout, exitCode>>

\* main calls send_message with the given title.
BotSendMessage ==
    /\ script = "wechat_bot" /\ pc = "start"
    /\ ~BotTooFewArgs(Len(argv))
    /\ Arg(2) = "message"
    /\ ~BotWrongArgCount(Len(argv))
    /\ \E reply \in PossibleReplies(Arg(1)) :
          /\ posted' = requests_post(posted, BotInvoke(argv, time_str, reply, jsonlib).request)
          /\ response' = reply
    /\ pc' = "posting"
    /\ UNCHANGED <<script, argv, jsonlib, time_str, outcome, stdout, exitCode>>

\* BotExit that posts the same request once more when the send failed.
BotExit_Retry ==
    /\ script = "wechat_bot" /\ pc = "posting"
    /\ LET r == BotInvoke(argv, time_str, response, jsonlib).result
       IN /\ outcome' = r
          /\ posted' = IF r.state = "returned" /\ r.delivered
                       THEN posted ELSE requests_post(posted, posted[1])
          /\ IF r.state = "returned"
             THEN /\ stdout' = Append(stdout, BotResultLine(r))
                  /\ exitCode' = ExitCodeOf(r.delivered)
             ELSE /\ stdout' = stdout
                  /\ exitCode' = 1
    /\ pc' = "done"
    /\ UNCHANGED <<script, argv, jsonlib, time_str, response>>

\* The reply is interpreted, the method returns (or raises) and main prints
\* the result and exits.  An exception nothing catches ends the interpreter
\* with a traceback on stderr and exit code 1.
BotExit ==
    /\ script = "wechat_bot" /\ pc = "posting"
    /\ LET r == BotInvoke(argv, time_str, response, jsonlib).result
       IN /\ outcome' = r
          /\ IF r.state = "returned"
             THEN /\ stdout' = Append(stdout, BotResultLine(r))
                  /\ exitCode' = ExitCodeOf(r.delivered)
             ELSE /\ stdout' = stdout
                  /\ exitCode' = 1
    /\ pc' = "done"
    /\ UNCHANGED <<script, argv, jsonlib, posted, time_str, response>>

----------------------------------------------------------------------------
(* scripts/test_wechat.py *)

\* The canned markdown of the test message.
TestContent ==
    <<"\n", "## WeCom test message", "\n\n",
      "**Lai WeCom notification test succeeded!**", "\n\n",
      "**tested:**\n", "- bot: ok\n", "- webhook: ok\n", "- format: Markdown\n\n",
      "**time:** 2025-09-10", "\n\n", "---\n", "*sent by the Lai log monitor*", "\n">>

TestPayload == [msgtype |-> "markdown", markdown |-> [content |-> TestContent]]

\* Python values back to JSON text.
EncodeScalar(x) ==
    CASE x.t = "NoneType" -> "null"
      [] x.t = "bool" -> (IF x.v = "True" THEN "true" ELSE "false")
      [] x.t = "str" ->
            (CASE x.v = "0" -> "\"0\""
               [] x.v = "ok" -> "\"ok\""
               [] x.v = "invalid webhook url" -> "\"invalid webhook url\""
               [] OTHER -> "\"?\"")
      [] OTHER -> x.v

\* json.dumps(result, ensure_ascii=False, indent=2), without its white space.
\* The bodies of the model name errcode before errmsg, the order a dict keeps.
JsonDumps(r) ==
    CASE r.t = "dict" ->
            <<"{">>
            \o (IF "errcode" \in DOMAIN r.items
                THEN <<"\"errcode\"", ":", EncodeScalar(r.items["errcode"])>> ELSE <<>>)
            \o (IF {"errcode", "errmsg"} \subseteq DOMAIN r.items THEN <<",">> ELSE <<>>)
            \o (IF "errmsg" \in DOMAIN r.items
                THEN <<"\"errmsg\"", ":", EncodeScalar(r.items["errmsg"])>> ELSE <<>>)
            \o <<"}">>
      [] r.t = "list" ->
            <<"[">>
            \o (IF "0" \in DOMAIN r.items THEN <<EncodeScalar(r.items["0"])>> ELSE <<>>)
            \o <<"]">>
      [] OTHER -> <<EncodeScalar([t |-> r.t, v |-> r.v])>>

\* The try block of test_wechat_webhook once requests.post gave reply: the
\* result and the lines printed on the way.
test_webhook_try(reply, lib) ==
    IF reply.kind = "exception"
    THEN [result |-> Raised(reply.exc, reply.errtext), out |-> <<>>]
    ELSE LET out1 == <<<<"HTTP status: ">> \o Digits(reply.status)>>
         IN IF reply.status = 200
            THEN LET result == response_json(reply, lib)
                     out2 == Append(out1, <<"response: ">> \o JsonDumps(result))
                 IN IF ~result.ok
                    THEN [result |-> Raised(result.t, JsonErrorText), out |-> out1]
                    ELSE IF result.t # "dict"
                    THEN [result |-> NoGetAttribute(result), out |-> out2]
                    ELSE IF PyEqZero(DictGet(result, "errcode", PyNone))
                    THEN [result |-> Returned(TRUE, <<>>),
                          out |-> Append(out2, <<"[ok] WeCom webhook test succeeded!">>)]
                    ELSE [result |-> Returned(FALSE, <<>>),
                          out |-> Append(out2, <<"[x] ">> \o ApiErrorDetail(result))]
            ELSE [result |-> Returned(FALSE, <<>>),
                  out |-> out1 \o <<<<"[x] ">> \o HttpErrorDetail(reply),
                                    <<"response: ">> \o reply.body>>]

\* The except clauses of test_wechat_webhook, in their order.
test_webhook_except(r) ==
    IF r.result.state # "raised" THEN r
    ELSE IF IsRequestException(r.result.exc)
    THEN [result |-> Returned(FALSE, <<>>),
          out |-> Append(r.out, <<"[x] ", NetworkFailPrefix>> \o r.result.detail)]
    ELSE IF IsJsonDecodeError(r.result.exc)
    THEN [result |-> Returned(FALSE, <<>>),
          out |-> Append(r.out, <<"[x] ", JsonFailPrefix>> \o r.result.detail)]
    ELSE r

\* test_wechat_webhook with a non-empty URL.
test_wechat_webhook(url, reply, lib) ==
    LET r == test_webhook_except(test_webhook_try(reply, lib))
    IN [request |-> PostRequest(url, TestPayload), result |-> r.result, out |-> r.out]

TestUsageLines ==
    <<<<"usage:">>, <<"  python test_wechat.py <webhook_url>">>, <<"">>, <<"example:">>,
      <<"  python test_wechat.py https://qyapi.weixin.qq.com/cgi-bin/webhook/send?key=YOUR_KEY">>>>

\* What main prints before the test; the URLs of the model are shorter than
\* 50 characters or cut to their first 50.
TestBannerLines(url) ==
    <<<<"testing the WeCom webhook...">>, <<"Webhook URL: ", url, "...">>, <<"">>>>

TestSuccessLines ==
    <<<<"">>, <<"test done! the WeCom notification is configured correctly.">>,
      <<"you can now use WeCom notifications in Lai.">>>>

TestFailureLines ==
    <<<<"">>, <<"test failed! please check:">>, <<"1. the webhook URL">>,
      <<"2. the network connection">>, <<"3. the WeCom group bot">>>>

\* len(sys.argv) != 2
TestWrongArgCount(n) == n # 2

\* main: not exactly one argument.
TestUsage ==
    /\ script = "test_wechat" /\ pc = "start"
    /\ TestWrongArgCount(Len(argv))
    /\ stdout' = stdout \o TestUsageLines
    /\ exitCode' = 1
    /\ pc' = "done"
    /\ UNCHANGED <<script, argv, jsonlib, posted, time_str, response, outcome>>

\* test_wechat_webhook with an empty URL: nothing is sent.
TestEmptyUrl ==
    /\ script = "test_wechat" /\ pc = "start"
    /\ ~TestWrongArgCount(Len(argv))
    /\ Arg(1) = ""
    /\ outcome' = Returned(FALSE, <<>>)
    /\ stdout' = stdout \o TestBannerLines(Arg(1))
                   \o <<<<"[x] please provide a webhook URL">>>> \o TestFailureLines
    /\ exitCode' = ExitCodeOf(FALSE)
    /\ pc' = "done"
    /\ UNCHANGED <<script, argv, jsonlib, posted, time_str, response>>

\* main prints its banner and test_wechat_webhook calls requests.post.
TestSend ==
    /\ script = "test_wechat" /\ pc = "start"
    /\ ~TestWrongArgCount(Len(argv))
    /\ Arg(1) # ""
    /\ \E reply \in PossibleReplies(Arg(1)) :
          /\ posted' = requests_post(posted, test_wechat_webhook(Arg(1), reply, jsonlib).request)
          /\ response' = reply
    /\ stdout' = stdout \o TestBannerLines(Arg(1))
    /\ pc' = "posting"
    /\ UNCHANGED <<script, argv, jsonlib, time_str, outcome, exitCode>>

\* The reply is interpreted and printed; main prints its verdict and exits.
TestExit ==
    /\ script = "test_wechat" /\ pc = "posting"
    /\ LET r == test_wechat_webhook(Arg(1), response, jsonlib)
       IN /\ outcome' = r.result
          /\ IF r.result.state = "returned"
             THEN /\ stdout' = stdout \o r.out
                        \o (IF r.result.delivered THEN TestSuccessLines ELSE TestFailureLines)
                  /\ exitCode' = ExitCodeOf(r.result.delivered)
             ELSE /\ stdout' = stdout \o r.out
                  /\ exitCode' = 1
    /\ pc' = "done"
    /\ UNCHANGED <<script, argv, jsonlib, posted, time_str, response>>

----------------------------------------------------------------------------
(* The run *)

ArgVectors == UNION {[1..n -> ArgTokens] : n \in 0..MaxArgs}

Init ==
    /\ script \in Scripts
    /\ \E a \in ArgVectors : argv = <<script>> \o a
    /\ jsonlib \in JsonLibs
    /\ pc = "start"
    /\ posted = <<>>
    /\ time_str = ""
    /\ response = NoResponse
    /\ outcome = NoOutcome
    /\ stdout = <<>>
    /\ exitCode = -1

Next ==
    \/ BotUsage
    \/ BotArgCount
    \/ BotUnknownType
    \/ BotSendWrapped
    \/ BotSendMessage
    \/ BotExit
    \/ TestUsage
    \/ TestEmptyUrl
    \/ TestSend
    \/ TestExit

Spec == Init /\ [][Next]_vars

----------------------------------------------------------------------------
(* Properties *)

\* A send was attempted and the process has ended.
Sent == pc = "done" /\ Len(posted) = 1

\* The text the run reports: send_message's detail, or what test_wechat.py printed.
Report == IF script = "wechat_bot" THEN outcome.detail ELSE Flatten(stdout)

\* The reply is an HTTP response with status 200 whose body decodes to a dict.
RepliedDict ==
    /\ response.kind = "response"
    /\ response.status = 200
    /\ JsonLoads(response.body).ok
    /\ JsonLoads(response.body).t = "dict"

\* ... and that dict has an errcode that Python compares equal to 0.
RepliedErrcodeZero ==
    /\ RepliedDict
    /\ "errcode" \in DOMAIN JsonLoads(response.body).items
    /\ PyEqZero(JsonLoads(response.body).items["errcode"])

\* C1: after a send, delivered=true is reported if and only if the status is
\* 200 and the decoded response has errcode equal to 0, and delivered=false
\* is reported for every other reply.
C1_DeliveredIffStatus200Errcode0 ==
    Sent => /\ outcome.state = "returned"
            /\ outcome.delivered <=> RepliedErrcodeZero

\* C2: there is no crash path: whatever the reply, the send gives its caller
\* an outcome instead of raising, and the process prints it and exits 0 or 1.
C2_NoCrashPath ==
    Sent => /\ outcome.state = "returned"
            /\ exitCode \in {0, 1}
            /\ script = "wechat_bot" => stdout[Len(stdout)] = BotResultLine(outcome)

\* C3: for a response whose status is not 200, delivered=false is returned
\* and the detail includes both the status code and the raw response body.
C3_Non200DetailHasStatusAndBody ==
    (Sent /\ response.kind = "response" /\ response.status # 200)
        => /\ outcome.state = "returned"
           /\ ~outcome.delivered
           /\ Contains(Report, Digits(response.status))
           /\ Contains(Report, response.body)

\* C4: for a status-200 response whose JSON object has an errcode that is
\* not equal to 0 (Python's comparison), or no errcode, delivered=false is
\* returned and the detail contains the response's errmsg when it has one
\* and the default "unknown error" string when it has none.
C4_RemoteErrorDetail ==
    (Sent /\ RepliedDict /\ ~RepliedErrcodeZero)
        => /\ outcome.state = "returned"
           /\ ~outcome.delivered
           /\ LET items == JsonLoads(response.body).items
              IN Contains(Report, <<IF "errmsg" \in DOMAIN items
                                    THEN items["errmsg"].v ELSE UnknownError>>)

\* C4's case: wechat_bot.py got errcode 93000 with an errmsg and reported it.
C4_Witness ==
    /\ Sent /\ script = "wechat_bot"
    /\ response.status = 200
    /\ response.body = <<"{", "\"errcode\"", ":", "93000", ",",
                         "\"errmsg\"", ":", "\"invalid webhook url\"", "}">>
    /\ outcome = Returned(FALSE, <<ApiErrorPrefix, "invalid webhook url">>)

\* C5: for a status-200 response whose body is not valid JSON,
\* delivered=false is returned with a detail that reports the JSON parse
\* failure, not the network failure, and nothing is raised to the caller.
C5_InvalidJsonReportsParseFailure ==
    (Sent /\ response.kind = "response" /\ response.status = 200
          /\ ~JsonLoads(response.body).ok)
        => /\ outcome.state = "returned"
           /\ ~outcome.delivered
           /\ Contains(Report, <<JsonFailPrefix>>)
           /\ ~Contains(Report, <<NetworkFailPrefix>>)

\* C6: when requests.post fails (DNS, connection refused, timeout),
\* delivered=false is returned with a detail describing the transport error
\* and nothing is raised to the caller.
C6_TransportFailure ==
    (Sent /\ response.kind = "exception")
        => /\ outcome.state = "returned"
           /\ ~outcome.delivered
           /\ exitCode = 1
           /\ Contains(Report, <<NetworkFailPrefix>> \o response.errtext)

\* C6's case: the POST timed out and the run reported a failure.
C6_Witness ==
    /\ Sent
    /\ response.exc = "requests.exceptions.Timeout"
    /\ outcome.state = "returned" /\ ~outcome.delivered

\* The arguments are valid and the endpoint is not empty.
ValidRun ==
    \/ script = "wechat_bot" /\ Len(argv) = 5 /\ argv[3] \in {"summary", "error", "message"}
                             /\ argv[2] # ""
    \/ script = "test_wechat" /\ Len(argv) = 2 /\ argv[2] # ""

\* C7: a run issues at most one POST; once one is issued no step issues
\* another, whatever the outcome (no retry); and a run with valid arguments
\* and a non-empty endpoint has issued exactly one when it exits.
C7_SinglePost ==
    [][/\ Len(posted') <= 1
       /\ Len(posted) = 1 => posted' = posted
       /\ (pc' = "done" /\ ValidRun) => Len(posted') = 1]_vars

\* C7's case: a send failed and the process ended with that one POST.
C7_Witness ==
    /\ Sent
    /\ outcome.state = "returned" /\ ~outcome.delivered
    /\ response.kind = "response" /\ response.status = 500

\* The arguments fail validation.
InvalidArgs ==
    \/ script = "wechat_bot"
       /\ \/ Len(argv) - 1 < 2
          \/ argv[3] \in {"summary", "error", "message"} /\ Len(argv) - 3 # 2
          \/ argv[3] \notin {"summary", "error", "message"}
    \/ script = "test_wechat" /\ Len(argv) - 1 # 1

\* C8: when argument validation fails (too few arguments, a known type with
\* an argument count other than two, an unknown type, or notify-test without
\* exactly one argument) no network call is made and the exit code is 1.
C8_InvalidArgsExit1NoPost ==
    InvalidArgs => /\ posted = <<>>
                   /\ pc # "posting"
                   /\ pc = "done" => exitCode = 1

\* C8's case: summary with three type-arguments was refused.
C8_Witness ==
    /\ pc = "done" /\ script = "wechat_bot"
    /\ Len(argv) = 6 /\ argv[3] = "summary"
    /\ exitCode = 1 /\ posted = <<>>

\* C9: whenever a send was attempted the exit code is 0 if and only if the
\* outcome is delivered=true, and 1 otherwise; status 200 with errcode 0
\* exits 0 and status 404 exits 1.
C9_ExitCodeIffDelivered ==
    Sent => /\ exitCode \in {0, 1}
            /\ exitCode = 0 <=> (outcome.state = "returned" /\ outcome.delivered)
            /\ (response.kind = "response" /\ response.status = 404) => exitCode = 1
            /\ (response.kind = "response" /\ response.status = 200
                /\ response.body = <<"{", "\"errcode\"", ":", "0", "}">>) => exitCode = 0

\* C9's case: a delivered message and exit code 0.
C9_Witness ==
    /\ Sent
    /\ response.status = 200
    /\ outcome.delivered
    /\ exitCode = 0

\* C10: send_log_summary and send_error post exactly what send_message
\* posts for their fixed title and a body holding the file path, the
\* timestamp and the text, unescaped, in the shape
\* {msgtype: "markdown", markdown: {content: "## <title>\n\n<body>"}}, and
\* give back what send_message gives for the same reply.
C10_WrappersAreSugar ==
    (script = "wechat_bot" /\ Len(posted) = 1)
        => LET json == posted[1].json
               content == json.markdown.content
               title == CASE argv[3] = "summary" -> SummaryTitle
                          [] argv[3] = "error" -> ErrorTitle
                          [] OTHER -> argv[4]
               body == SubSeq(content, 4, Len(content))
           IN /\ DOMAIN json = {"msgtype", "markdown"}
              /\ DOMAIN json.markdown = {"content"}
              /\ json.msgtype = "markdown"
              /\ StartsWith(content, <<"## ", title, "\n\n">>)
              /\ argv[3] \in {"summary", "error"} =>
                    /\ time_str \in Times
                    /\ Contains(body, <<argv[4]>>)
                    /\ Contains(body, <<time_str>>)
                    /\ Contains(body, <<argv[5]>>)
              /\ argv[3] = "message" => body = <<argv[5]>>
              /\ pc = "done" =>
                    outcome = send_message(argv[2], <<>>, DefaultTitle, response, jsonlib).result

\* C10's case: a summary holding markdown control characters was delivered.
C10_Witness ==
    /\ Sent /\ script = "wechat_bot"
    /\ argv[3] = "summary" /\ argv[5] = "## <bt>x<bt>"
    /\ outcome.state = "returned" /\ outcome.delivered

====
